---- MODULE Spec2Model ----
(***************************************************************************)
(* Model of quote_hd5.py: the QuoteHD5 class over one HDF5 file per        *)
(* market.  A file is a root LAST_UPDATE attribute and three groups        *)
(* (/DAILY, /MIN5, /SPLITS), each with its own LAST_UPDATE attribute and   *)
(* a set of tables named by stock code.  A row is reduced to its time      *)
(* column and one payload column (close).                                  *)
(***************************************************************************)
EXTENDS Integers, Sequences, FiniteSets, TLC

\* ------------------------------------------------------------------ bounds
\* time units per calendar day (86400 seconds, scaled down)
DayLen == 2
\* the calendar date of the first call
FirstDay == 3
\* how many days the calendar date may advance
MaxTicks == 1
\* how many (code, data) pairs a data source yields, how many codes a
\* code list holds
MaxBatch == 2
\* how many calls of the public operations one behaviour makes
MaxCalls == 2
\* the trading calendar: of every WeekLen days the last one is no trading day
WeekLen == 4

\* --------------------------------------------------------------- constants
MK_SH == <<"S", "H">>
MK_SZ == <<"S", "Z">>
MARKETS == <<MK_SH, MK_SZ>>
TYPE_DAILY == "DAILY"
TYPE_MIN5 == "MIN5"
TYPE_SPLITS == "SPLITS"
TYPE_HD5 == <<TYPE_DAILY, TYPE_MIN5, TYPE_SPLITS>>
GRP_DAILY == "/DAILY"
GRP_MIN5 == "/MIN5"
GRP_SPLITS == "/SPLITS"
TYPE2GRP ==
    [t \in {TYPE_DAILY, TYPE_MIN5, TYPE_SPLITS} |->
        CASE t = TYPE_DAILY -> GRP_DAILY
          [] t = TYPE_MIN5 -> GRP_MIN5
          [] OTHER -> GRP_SPLITS]
SH000001 == <<"S", "H", "0", "0", "0", "0", "0", "1">>
SZ399001 == <<"S", "Z", "3", "9", "9", "0", "0", "1">>
MK_INDEX == [m \in {MK_SH, MK_SZ} |-> IF m = MK_SH THEN SH000001 ELSE SZ399001]
\* StringCol(8): the width of a code
CodeWidth == 8

Range(f) == {f[x] : x \in DOMAIN f}
MarketSet == Range(MARKETS)
TypeSet == Range(TYPE_HD5)
GroupSet == Range(TYPE2GRP)

\* ------------------------------------------------------- strings and dates
\* str.upper() on one character, then on a code
UpperChar(ch) ==
    CASE ch = "s" -> "S"
      [] ch = "h" -> "H"
      [] ch = "z" -> "Z"
      [] ch = "x" -> "X"
      [] OTHER -> ch
upper(code) == [i \in 1..Len(code) |-> UpperChar(code[i])]
\* code[:2]
Prefix2(code) == SubSeq(code, 1, IF Len(code) < 2 THEN Len(code) ELSE 2)

\* A date string ('20120105') is the one-element tuple of its day number;
\* the empty string is the empty tuple.
EmptyStr == <<>>
\* tools.dtnum2str: seconds since the epoch -> the date string of its day
dtnum2str(t) == <<t \div DayLen>>
\* tools.dtstr2num: date string -> seconds since the epoch (start of the day)
dtstr2num(s) == s[1] * DayLen
\* dt.datetime.strftime(dt.date.today(), '%Y%m%d')
strftime(day) == <<day>>

\* tools.get_workingdays(start, end): the trading dates from start to end,
\* both included, in ascending order, by the fixed calendar
IsWorkday(d) == d % WeekLen # WeekLen - 1
RECURSIVE WorkdaysBetween(_, _)
WorkdaysBetween(a, b) ==
    IF a > b THEN <<>>
    ELSE (IF IsWorkday(a) THEN <<strftime(a)>> ELSE <<>>) \o WorkdaysBetween(a + 1, b)
get_workingdays(start, end) == WorkdaysBetween(start[1], end[1])

\* ------------------------------------------------------------------- rows
Row(t, c) == [time |-> t, close |-> c]
RowTimes(rows) == [i \in 1..Len(rows) |-> rows[i].time]
IsSorted(rows) == \A i \in 1..(Len(rows) - 1) : rows[i].time <= rows[i + 1].time

\* --------------------------------------------------------------- the files
\* create_hd5: blank LAST_UPDATE on the root and on the three groups, no table
create_hd5 ==
    [LAST_UPDATE |-> EmptyStr,
     grp |-> [g \in GroupSet |-> [LAST_UPDATE |-> EmptyStr, tbl |-> <<>>]]]

HasTable(file, g, name) == name \in DOMAIN file.grp[g].tbl

VARIABLES
    hd5fp,        \* self._hd5fp: market -> open file, the missing ones absent
    last_update,  \* self._last_update: market -> root LAST_UPDATE at open time
    today,        \* the date dt.date.today() gave last, a day number
    dst,          \* the file extract() wrote last: [file, closed], or NoFile
    ret,          \* the last call: its arguments, the state before, the outcome
    all_checked,  \* every table write so far was an append with checkorder=True
    lost_date,    \* self.lost_date: what get_lostdate found last, None before
    ncalls        \* number of calls made so far

vars == <<hd5fp, last_update, today, dst, ret, all_checked, lost_date, ncalls>>

NoFile == [file |-> create_hd5, exists |-> FALSE, closed |-> TRUE]
NoCall == [op |-> "none"]
\* Python's None
None == [none |-> TRUE]

\* ------------------------------------------------------------ _append_quote
\* no comparison at all
FilterRowsAll(data, start) == data
\* a strict comparison in place of >=
FilterRowsStrict(data, start) == SelectSeq(data, LAMBDA r : r.time > start)
\* line 239: data[np.where(data['time'] >= start)]
FilterRows(data, start) == SelectSeq(data, LAMBDA r : r.time >= start)

\* line 236: start = dtstr2num(lupdate) if lupdate else 0
StartOf(lupdate) == IF lupdate # EmptyStr THEN dtstr2num(lupdate) ELSE 0

\* a test of the market tag in place of the code
IsIndexCodeByMarket(code) == Prefix2(code) \in DOMAIN MK_INDEX
\* line 262: code in MK_INDEX.values()
IsIndexCode(code) == code \in Range(MK_INDEX)

\* rows[0] in place of rows[-1]
LastStampOfFirst(rows) == dtnum2str(rows[1].time)
\* line 263: dtnum2str(rows[-1][0])
LastStamp(rows) == dtnum2str(rows[Len(rows)].time)

\* the new rows put before the rows of the table
TableAppendFront(file, g, code, rows) ==
    LET old == IF HasTable(file, g, code) THEN file.grp[g].tbl[code] ELSE <<>>
        new == (code :> (rows \o old)) @@ file.grp[g].tbl
    IN  [file EXCEPT !.grp[g].tbl = new]
\* lines 248-258: getNode or createTable, then tbl.append(rows)
TableAppend(file, g, code, rows) ==
    LET old == IF HasTable(file, g, code) THEN file.grp[g].tbl[code] ELSE <<>>
        new == (code :> (old \o rows)) @@ file.grp[g].tbl
    IN  [file EXCEPT !.grp[g].tbl = new]

\* lines 264-265: the group's and the root's LAST_UPDATE
SetStamp(file, g, tmp) ==
    [file EXCEPT !.grp[g].LAST_UPDATE = tmp, !.LAST_UPDATE = tmp]

\* the filter applied whatever checkorder says
RowsToWriteFiltered(data, start, checkorder) == FilterRows(data, start)
\* lines 238-245: the rows to write
RowsToWrite(data, start, checkorder) ==
    IF checkorder THEN FilterRows(data, start) ELSE data

\* no skip of an empty filtered set
SkipsCodeNever(rows, checkorder) == FALSE
\* line 240: the code is skipped when the filter leaves nothing
SkipsCode(rows, checkorder) == checkorder /\ Len(rows) < 1

\* One iteration of the loop of lines 225-265 on the running state
\* st = [fp, count, exc]: fp the open files, count = <<seen, appended>>,
\* exc the exception that ended the call ("" while none).
AppendOne(st, data_type, item, checkorder) ==
    LET code == upper(item.code)
        mk == Prefix2(code)
        seen == [st EXCEPT !.count[1] = @ + 1]
    IN  IF mk \notin MarketSet THEN seen
        ELSE IF mk \notin DOMAIN st.fp THEN [seen EXCEPT !.exc = "KeyError"]
        ELSE
            LET file == st.fp[mk]
                g == TYPE2GRP[data_type]
                start == StartOf(file.grp[g].LAST_UPDATE)
                rows == RowsToWrite(item.data, start, checkorder)
            IN  IF SkipsCode(rows, checkorder) THEN seen
                ELSE
                    LET written == TableAppend(file, g, code, rows)
                        counted == [seen EXCEPT !.count[2] = @ + 1]
                    IN  IF ~IsIndexCode(code)
                        THEN [counted EXCEPT !.fp[mk] = written]
                        ELSE IF Len(rows) = 0
                        THEN [counted EXCEPT !.fp[mk] = written,
                                             !.exc = "IndexError"]
                        ELSE [counted EXCEPT
                                 !.fp[mk] = SetStamp(written, g, LastStamp(rows))]

\* The loop of lines 225-265: the states after each item, stopping at the
\* first exception.
RECURSIVE AppendLoop(_, _, _, _, _)
AppendLoop(st, data_type, data_source, checkorder, i) ==
    IF i > Len(data_source) \/ st.exc # ""
    THEN <<>>
    ELSE LET nxt == AppendOne(st, data_type, data_source[i], checkorder)
         IN  <<nxt>> \o AppendLoop(nxt, data_type, data_source, checkorder, i + 1)

\* lines 267-270: every market's SPLITS LAST_UPDATE becomes today's date;
\* self._hd5fp[mk] raises KeyError for a market that was not opened
RECURSIVE SplitsRefresh(_, _, _)
SplitsRefresh(st, tmp, i) ==
    IF i > Len(MARKETS) \/ st.exc # ""
    THEN st
    ELSE LET mk == MARKETS[i]
         IN  IF mk \notin DOMAIN st.fp
             THEN [st EXCEPT !.exc = "KeyError"]
             ELSE SplitsRefresh(
                      [st EXCEPT !.fp[mk].grp[GRP_SPLITS].LAST_UPDATE = tmp],
                      tmp, i + 1)

\* the refresh left out
RefreshesSplitsNever(data_type) == FALSE
\* line 267: the refresh is made for the SPLITS type only
RefreshesSplits(data_type) == data_type = TYPE_SPLITS

\* _append_quote as a whole: [trace, final]
append_quote(fp, data_type, data_source, checkorder, day) ==
    LET st0 == [fp |-> fp, count |-> <<0, 0>>, exc |-> ""]
        trace == AppendLoop(st0, data_type, data_source, checkorder, 1)
        st1 == IF Len(trace) = 0 THEN st0 ELSE trace[Len(trace)]
        st2 == IF st1.exc = "" /\ RefreshesSplits(data_type)
               THEN SplitsRefresh(st1, strftime(day), 1)
               ELSE st1
    IN  [trace |-> trace, final |-> st2]

\* ------------------------------------------------------------------ read
\* read(): the rows of the table of code in the group of db_type, or None.
\* self._hd5fp[...] raises KeyError when the market was not opened.
read(fp, code, db_type) ==
    LET mk == upper(Prefix2(code))
        g == TYPE2GRP[db_type]
    IN  IF mk \notin DOMAIN fp THEN [exc |-> "KeyError", rows |-> None]
        ELSE IF HasTable(fp[mk], g, upper(code))
        THEN [exc |-> "", rows |-> fp[mk].grp[g].tbl[upper(code)]]
        ELSE [exc |-> "", rows |-> None]

\* --------------------------------------------------------------- sort_hd5
\* rows.sort(order='time'): insertion of r after the rows not later than it
RECURSIVE InsertRow(_, _)
InsertRow(sorted, r) ==
    IF sorted = <<>> THEN <<r>>
    ELSE IF sorted[Len(sorted)].time <= r.time THEN Append(sorted, r)
    ELSE Append(InsertRow(SubSeq(sorted, 1, Len(sorted) - 1), r), sorted[Len(sorted)])
RECURSIVE SortRows(_)
SortRows(rows) ==
    IF rows = <<>> THEN <<>>
    ELSE InsertRow(SortRows(SubSeq(rows, 1, Len(rows) - 1)), rows[Len(rows)])

\* node.modifyRows(start=0, stop=-1, rows=rows): the range [0, nrows - 1) of
\* the table is overwritten with the leading rows of `rows`
modifyRows(old, rows) ==
    IF Len(old) = 0 THEN old
    ELSE SubSeq(rows, 1, Len(old) - 1) \o <<old[Len(old)]>>

\* lines 310-314 on one file: every table of every group
SortFile(file) ==
    [file EXCEPT !.grp =
        [g \in GroupSet |->
            [file.grp[g] EXCEPT !.tbl =
                [c \in DOMAIN file.grp[g].tbl |->
                    modifyRows(file.grp[g].tbl[c], SortRows(file.grp[g].tbl[c]))]]]]

sort_hd5(fp) == [m \in DOMAIN fp |-> SortFile(fp[m])]

\* ----------------------------------------------------------- get_lastupdate
\* walkGroups(): the root group, then its three groups
GroupLines(file) ==
    <<[name |-> "/", stamp |-> file.LAST_UPDATE],
      [name |-> TYPE_DAILY, stamp |-> file.grp[GRP_DAILY].LAST_UPDATE],
      [name |-> TYPE_MIN5, stamp |-> file.grp[GRP_MIN5].LAST_UPDATE],
      [name |-> TYPE_SPLITS, stamp |-> file.grp[GRP_SPLITS].LAST_UPDATE]>>

\* lines 139-144: self._hd5fp[mk] for every market of MARKETS
RECURSIVE get_lastupdate(_, _, _)
get_lastupdate(fp, rst, i) ==
    IF i > Len(MARKETS) THEN [exc |-> "", rst |-> rst]
    ELSE IF MARKETS[i] \notin DOMAIN fp THEN [exc |-> "KeyError", rst |-> rst]
    ELSE get_lastupdate(fp, rst \o GroupLines(fp[MARKETS[i]]), i + 1)

\* -------------------------------------------------------------- get_lostdate
\* the code argument left out (code=None)
NoArg == <<>>
\* the recorded days in place of the missing ones
LostDatesRecorded(work_days, rec_days) ==
    SelectSeq(work_days, LAMBDA x : x \in rec_days)
\* line 204: [x for x in work_days if x not in rec_days]
LostDates(work_days, rec_days) ==
    SelectSeq(work_days, LAMBDA x : x \notin rec_days)

\* get_lostdate(code): [exc, lost_date], lost_date = None when the call raised.
\* The except clause of line 196 names NoSuchNodeError unqualified, a name only
\* `from tools import *` can bind: bound tells whether it does. Unbound, the
\* clause itself raises NameError on any exception of the try block; bound,
\* it catches the missing table and the handler's log.debug raises ValueError
\* ('% n' is no conversion), and the KeyError of a market that was not opened
\* passes through. tbl[0] raises IndexError on a table without rows.
get_lostdate(fp, arg, bound) ==
    LET code == IF arg = NoArg THEN MK_INDEX[MK_SH] ELSE arg
        mk == Prefix2(code)
    IN  IF mk \notin DOMAIN fp
        THEN [exc |-> IF bound THEN "KeyError" ELSE "NameError", lost_date |-> None]
        ELSE IF ~HasTable(fp[mk], GRP_MIN5, code)
        THEN [exc |-> IF bound THEN "ValueError" ELSE "NameError", lost_date |-> None]
        ELSE LET tbl == fp[mk].grp[GRP_MIN5].tbl[code]
             IN  IF Len(tbl) = 0 THEN [exc |-> "IndexError", lost_date |-> None]
                 ELSE LET rec_days == {dtnum2str(tbl[i].time) : i \in 1..Len(tbl)}
                          work_days == get_workingdays(dtnum2str(tbl[1].time),
                                                       dtnum2str(tbl[Len(tbl)].time))
                      IN  [exc |-> "", lost_date |-> LostDates(work_days, rec_days)]

\* ------------------------------------------------------------------ dad2hd5
\* the two ticks of a day that a day's feed file holds
DayRows(day) == <<Row(day * DayLen, day), Row(day * DayLen + DayLen - 1, day)>>
\* What the feed files hold: the daily and the 5-minute file of a day hold
\* that day's rows of the two index codes, split.pwr one code's rows
FeedSource(day, data_type) ==
    IF data_type = TYPE_SPLITS
    THEN <<[code |-> <<"S", "H", "6", "0", "0", "0", "0", "0">>, data |-> DayRows(day)]>>
    ELSE <<[code |-> SH000001, data |-> DayRows(day)],
           [code |-> <<"s", "z", "3", "9", "9", "0", "0", "1">>, data |-> DayRows(day)]>>
Unit(day, data_type) == [day |-> day, data_type |-> data_type]
\* split.pwr is one file, not one of a day
SplitsUnit == Unit(0, TYPE_SPLITS)
\* fxj_parser.iter_parser(fn, ...): the batch of a file that can be read,
\* None of one that cannot; avail is the set of readable files
iter_parser(unit, avail, day) ==
    IF unit \in avail THEN FeedSource(day, unit.data_type) ELSE None

\* the 5-minute file of a day before its daily file
DadUnitsMin5First(days) ==
    [i \in 1..(2 * Len(days)) |->
        Unit(days[(i + 1) \div 2][1], IF i % 2 = 1 THEN TYPE_MIN5 ELSE TYPE_DAILY)]
\* lines 282-283: for every day the daily file, then the 5-minute file
DadUnits(days) ==
    [i \in 1..(2 * Len(days)) |->
        Unit(days[(i + 1) \div 2][1], IF i % 2 = 1 THEN TYPE_DAILY ELSE TYPE_MIN5)]

\* the call of _append_quote of lines 288 and 299, added to the calls made:
\* final is what the call left, its exception ends dad2hd5
DadCalled(st, unit, data_source, final) ==
    [fp |-> final.fp,
     calls |-> Append(st.calls,
                  [day |-> unit.day, data_type |-> unit.data_type,
                   data_source |-> data_source, checkorder |-> TRUE,
                   exc |-> final.exc]),
     exc |-> final.exc]
DadAppend(st, unit, data_source, day) ==
    DadCalled(st, unit, data_source,
              append_quote(st.fp, unit.data_type, data_source, TRUE, day).final)
\* lines 286-303 for one file on st = [fp, calls, exc]: the append when the
\* parser gave a batch, log.error when it did not
DadOne(st, unit, avail, day) ==
    IF unit \notin avail THEN st
    ELSE DadAppend(st, unit, iter_parser(unit, avail, day), day)

RECURSIVE DadLoop(_, _, _, _)
DadLoop(st, units, avail, i) ==
    IF i > Len(units) \/ st.exc # "" THEN st
    ELSE DadLoop(DadOne(st, units[i], avail, units[i].day), units, avail, i + 1)

\* lines 296-303 after the loop over the days. Line 303 formats fn, the
\* variable of the loop of line 283: when no day was gone through it is unbound.
DadSplits(st, days, avail, day) ==
    IF st.exc # "" THEN st
    ELSE IF SplitsUnit \in avail THEN DadOne(st, SplitsUnit, avail, day)
    ELSE IF Len(days) = 0 THEN [st EXCEPT !.exc = "UnboundLocalError"]
    ELSE st
DadResult(fin, days) ==
    [fp |-> fin.fp, calls |-> fin.calls, exc |-> fin.exc, days |-> days]
\* lines 282-303 for the days to go through
DadDays(fp, days, avail, day) ==
    DadResult(DadSplits(DadLoop([fp |-> fp, calls |-> <<>>, exc |-> ""],
                                DadUnits(days), avail, 1),
                        days, avail, day),
              days)
\* w_days[1:]
DropFirst(w_days) == SubSeq(w_days, 2, Len(w_days))

\* dad2hd5 as a whole: [fp, calls, exc, days]. self._last_update[MK_SH] raises
\* KeyError when the SH file was not opened.
dad2hd5(fp, lupdate, avail, day) ==
    IF MK_SH \notin DOMAIN lupdate
    THEN [fp |-> fp, calls |-> <<>>, exc |-> "KeyError", days |-> <<>>]
    ELSE DadDays(fp, DropFirst(get_workingdays(lupdate[MK_SH], strftime(day))),
                 avail, day)

\* ----------------------------------------------------------------- extract
\* the test of the length left out
InvalidCodeTagOnly(code) == Prefix2(code) \notin MarketSet
\* line 352: (code[:2] not in MARKETS) or len(code) != 8
InvalidCode(code) == Prefix2(code) \notin MarketSet \/ Len(code) # CodeWidth

\* a copy that loses the last row
CopyRowsShort(rows) == SubSeq(rows, 1, Len(rows) - 1)
\* line 361: src_tbl.copy(dst_grp, src_tbl.name, overwrite=True)
CopyRows(rows) == rows
CopyTable(dfile, g, name, rows) ==
    [dfile EXCEPT !.grp[g].tbl = (name :> CopyRows(rows)) @@ dfile.grp[g].tbl]

\* A copy that raises (an I/O error inside src_tbl.copy) is named by the
\* position of the code in code_lst and the group; NoFault when none does.
NoFault == [i |-> 0, g |-> ""]
\* copy(overwrite=True) removes the destination node before it copies: a copy
\* that raises leaves no table of that name in the destination group
CopyFailed(dfile, g, name) ==
    [dfile EXCEPT !.grp[g].tbl =
        [c \in DOMAIN dfile.grp[g].tbl \ {name} |-> dfile.grp[g].tbl[c]]]

\* lines 357-370 for the i-th code: every group in which the source has the
\* table is copied and counted; NoSuchNodeError and, by the bare except, any
\* other exception of the copy go on with the next group
CopyGroups(st, src, code, i, fault) ==
    LET have == {g \in GroupSet : HasTable(src, g, code)}
        bad == {g \in have : fault.i = i /\ fault.g = g}
    IN  [st EXCEPT
            !.file.grp = [g \in GroupSet |->
                            IF g \in bad
                            THEN CopyFailed(st.file, g, code).grp[g]
                            ELSE IF g \in have
                            THEN CopyTable(st.file, g, code, src.grp[g].tbl[code]).grp[g]
                            ELSE st.file.grp[g]],
            !.count[2] = @ + Cardinality(have \ bad),
            !.caught = @ + Cardinality(bad)]

\* One iteration of the loop of lines 350-370 on
\* st = [file, count, exc, caught, done]: done the positions gone through
ExtractOne(st, fp, rawcode, i, fault) ==
    LET code == upper(rawcode)
        here == [st EXCEPT !.done = @ \cup {i}]
    IN  IF InvalidCode(code) THEN here
        ELSE LET tried == [here EXCEPT !.count[1] = @ + 1]
             IN  IF Prefix2(code) \notin DOMAIN fp
                 THEN [tried EXCEPT !.exc = "KeyError"]
                 ELSE CopyGroups(tried, fp[Prefix2(code)], code, i, fault)

RECURSIVE ExtractLoop(_, _, _, _, _)
ExtractLoop(st, fp, code_lst, i, fault) ==
    IF i > Len(code_lst) \/ st.exc # "" THEN st
    ELSE ExtractLoop(ExtractOne(st, fp, code_lst[i], i, fault),
                     fp, code_lst, i + 1, fault)

\* extract as a whole, on the destination found before the call:
\* [dst, count, exc, made, caught, done]
extract(fp, code_lst, olddst, fault) ==
    IF Len(code_lst) < 1
    THEN [dst |-> olddst, count |-> <<0, 0>>, exc |-> "", made |-> FALSE,
          caught |-> 0, done |-> {}]
    ELSE LET st == ExtractLoop([file |-> create_hd5, count |-> <<0, 0>>, exc |-> "",
                                caught |-> 0, done |-> {}],
                               fp, code_lst, 1, fault)
         IN  [dst |-> [file |-> st.file, exists |-> TRUE, closed |-> st.exc = ""],
              count |-> st.count, exc |-> st.exc, made |-> TRUE,
              caught |-> st.caught, done |-> st.done]

\* ------------------------------------------------------------------ inputs
Codes ==
    {SH000001,
     <<"s", "z", "3", "9", "9", "0", "0", "1">>,
     <<"S", "H", "6", "0", "0", "0", "0", "0">>,
     <<"X", "X", "1", "2", "3", "4", "5", "6">>,
     <<"S", "H", "6", "0", "0", "0">>}
\* two days apart, in time order
DataSorted == <<Row(1, 1), Row(2 * DayLen, 2)>>
\* the later row first
DataUnsorted == <<Row(2 * DayLen + 1, 3), Row(1, 4)>>
\* one row of the day in between
DataOne == <<Row(DayLen + 1, 5)>>
DatasOf(code) ==
    IF code = SH000001 THEN {DataSorted, DataUnsorted}
    ELSE IF upper(code) = SZ399001 THEN {DataSorted}
    ELSE {DataOne}
Items == UNION {[code : {c}, data : DatasOf(c)] : c \in Codes}
SeqsUpTo(S, n) == UNION {[1..k -> S] : k \in 0..n}
DataSources == SeqsUpTo(Items, MaxBatch)
CodeLists == SeqsUpTo(Codes, MaxBatch)
\* the code lists of an extract from the filled files: the two index codes the
\* feed holds, one in lower case, and a code of no market
FilledCodes ==
    {SH000001,
     <<"s", "z", "3", "9", "9", "0", "0", "1">>,
     <<"X", "X", "1", "2", "3", "4", "5", "6">>}
FilledCodeLists == SeqsUpTo(FilledCodes, MaxBatch)
\* the copy that raises during an extract, if any
Faults == {NoFault} \cup [i : 1..MaxBatch, g : GroupSet]
\* the days up to which earlier runs filled the files
LastDays == (FirstDay - 2)..(FirstDay - 1)
\* the feed files an update run may find
FeedUnits ==
    {SplitsUnit} \cup
        {Unit(d, t) : d \in {x \in (FirstDay - 1)..(FirstDay + MaxTicks) : IsWorkday(x)},
                      t \in {TYPE_DAILY, TYPE_MIN5}}

\* --------------------------------------------------------------- behaviour
\* __init__: the files that exist are opened; they were made by create_hd5
Init ==
    /\ \E present \in (SUBSET MarketSet) \ {{}} :
          /\ hd5fp = [m \in present |-> create_hd5]
          /\ last_update = [m \in present |-> create_hd5.LAST_UPDATE]
    /\ today = FirstDay
    /\ dst = NoFile
    /\ ret = NoCall
    /\ all_checked = TRUE
    /\ lost_date = None
    /\ ncalls = 0

\* line 268, dt.date.today(): the date a SPLITS call reads is the date of the
\* previous reading or a later one; the other calls do not read the date
DatesRead(data_type) ==
    IF data_type = TYPE_SPLITS
    THEN {d \in today..(today + 1) : d <= FirstDay + MaxTicks}
    ELSE {today}

AppendQuote ==
    /\ ncalls < MaxCalls
    /\ \E data_type \in TypeSet, data_source \in DataSources, checkorder \in BOOLEAN :
          \E day \in DatesRead(data_type) :
             LET r == append_quote(hd5fp, data_type, data_source, checkorder, day)
             IN  /\ hd5fp' = r.final.fp
                 /\ today' = day
                 /\ ret' = [op |-> "append", data_type |-> data_type,
                            data_source |-> data_source, checkorder |-> checkorder,
                            pre |-> hd5fp, trace |-> r.trace,
                            count |-> r.final.count, exc |-> r.final.exc]
                 /\ all_checked' = (all_checked /\ checkorder)
    /\ ncalls' = ncalls + 1
    /\ UNCHANGED <<last_update, dst, lost_date>>

Extract ==
    /\ ncalls < MaxCalls
    /\ \E code_lst \in CodeLists :
          LET r == extract(hd5fp, code_lst, dst, NoFault)
          IN  /\ dst' = r.dst
              /\ ret' = [op |-> "extract", code_lst |-> code_lst, pre |-> hd5fp,
                         count |-> r.count, exc |-> r.exc, made |-> r.made,
                         fault |-> NoFault, caught |-> r.caught, done |-> r.done]
    /\ ncalls' = ncalls + 1
    /\ UNCHANGED <<hd5fp, last_update, today, all_checked, lost_date>>

Sort ==
    /\ ncalls < MaxCalls
    /\ hd5fp' = sort_hd5(hd5fp)
    /\ ret' = [op |-> "sort", pre |-> hd5fp, exc |-> ""]
    /\ all_checked' = FALSE
    /\ ncalls' = ncalls + 1
    /\ UNCHANGED <<last_update, today, dst, lost_date>>

GetLastUpdate ==
    /\ ncalls < MaxCalls
    /\ LET r == get_lastupdate(hd5fp, <<>>, 1)
       IN  ret' = [op |-> "get_lastupdate", pre |-> hd5fp, exc |-> r.exc, rst |-> r.rst]
    /\ ncalls' = ncalls + 1
    /\ UNCHANGED <<hd5fp, last_update, today, dst, all_checked, lost_date>>

GetLostDate ==
    /\ ncalls < MaxCalls
    /\ \E arg \in Codes \cup {NoArg}, bound \in BOOLEAN :
          LET r == get_lostdate(hd5fp, arg, bound)
          IN  /\ lost_date' = IF r.exc = "" THEN r.lost_date ELSE lost_date
              /\ ret' = [op |-> "get_lostdate", arg |-> arg, pre |-> hd5fp,
                         exc |-> r.exc, lost_date |-> r.lost_date]
    /\ ncalls' = ncalls + 1
    /\ UNCHANGED <<hd5fp, last_update, today, dst, all_checked>>

\* extract with at most one copy that raises
ExtractFaulty ==
    /\ ncalls < MaxCalls
    /\ \E code_lst \in FilledCodeLists, fault \in Faults :
          LET r == extract(hd5fp, code_lst, dst, fault)
          IN  /\ dst' = r.dst
              /\ ret' = [op |-> "extract", code_lst |-> code_lst, pre |-> hd5fp,
                         count |-> r.count, exc |-> r.exc, made |-> r.made,
                         fault |-> fault, caught |-> r.caught, done |-> r.done]
    /\ ncalls' = ncalls + 1
    /\ UNCHANGED <<hd5fp, last_update, today, all_checked, lost_date>>

Dad2hd5 ==
    /\ ncalls < MaxCalls
    /\ \E avail \in SUBSET FeedUnits :
          LET r == dad2hd5(hd5fp, last_update, avail, today)
          IN  /\ hd5fp' = r.fp
              /\ ret' = [op |-> "dad2hd5", avail |-> avail, pre |-> hd5fp,
                         lupdate |-> last_update, days |-> r.days,
                         calls |-> r.calls, exc |-> r.exc]
    /\ ncalls' = ncalls + 1
    /\ UNCHANGED <<last_update, today, dst, all_checked, lost_date>>

Next ==
    \/ AppendQuote
    \/ Extract
    \/ Sort
    \/ GetLastUpdate

Spec == Init /\ [][Next]_vars

\* The update run of main(): the files were filled by earlier runs up to the
\* day lastday, they are opened, and dad2hd5, extract and get_lostdate follow.
Filled(lastday) ==
    LET idx == <<[code |-> SH000001, data |-> DayRows(lastday)],
                 [code |-> SZ399001, data |-> DayRows(lastday)]>>
        made == [m \in MarketSet |-> create_hd5]
        daily == append_quote(made, TYPE_DAILY, idx, TRUE, lastday).final.fp
    IN  append_quote(daily, TYPE_MIN5, idx, TRUE, lastday).final.fp

InitUpdate ==
    /\ \E present \in {MarketSet, {MK_SH}}, lastday \in LastDays :
          /\ hd5fp = [m \in present |-> Filled(lastday)[m]]
          /\ last_update = [m \in present |-> Filled(lastday)[m].LAST_UPDATE]
    /\ today \in FirstDay..(FirstDay + MaxTicks)
    /\ dst = NoFile
    /\ ret = NoCall
    /\ all_checked = TRUE
    /\ lost_date = None
    /\ ncalls = 0

NextUpdate ==
    \/ Dad2hd5
    \/ ExtractFaulty
    \/ GetLostDate

SpecUpdate == InitUpdate /\ [][NextUpdate]_vars

\* ================================================================== claims
\* What the claims read from the record of the last call.
Metas(file) ==
    [root |-> file.LAST_UPDATE,
     grp |-> [g \in GroupSet |-> file.grp[g].LAST_UPDATE]]
TableOr(file, g, code) ==
    IF HasTable(file, g, code) THEN file.grp[g].tbl[code] ELSE <<>>
AllTables(fp) == [m \in DOMAIN fp |-> [g \in GroupSet |-> fp[m].grp[g].tbl]]
IsAppend == ret.op = "append"
\* the files and counters before and after the i-th pair of the data source
StepBefore(i) == IF i = 1 THEN ret.pre ELSE ret.trace[i - 1].fp
StepAfter(i) == ret.trace[i].fp
CountBefore(i) == IF i = 1 THEN <<0, 0>> ELSE ret.trace[i - 1].count
StepCode(i) == upper(ret.data_source[i].code)
StepMarket(i) == Prefix2(StepCode(i))
StepData(i) == ret.data_source[i].data
StepGroup == TYPE2GRP[ret.data_type]
\* the pair was reached and its market is open
StepOpen(i) == i \in 1..Len(ret.trace) /\ StepMarket(i) \in DOMAIN StepBefore(i)
\* the cutoff of the group before the pair, 0 when LAST_UPDATE is blank
StepCutoff(i) ==
    LET s == StepBefore(i)[StepMarket(i)].grp[StepGroup].LAST_UPDATE
    IN  IF s = EmptyStr THEN 0 ELSE dtstr2num(s)
\* the input rows at or after the cutoff, in input order
StepKept(i) ==
    LET c == StepCutoff(i) IN SelectSeq(StepData(i), LAMBDA r : ~(r.time < c))
\* the rows the call is to write: the kept ones, or all without checkorder
StepRows(i) == IF ret.checkorder THEN StepKept(i) ELSE StepData(i)
IndexCodes == {MK_INDEX[m] : m \in DOMAIN MK_INDEX}

\* C1: in every state reached through appends that all use checkorder=True,
\* the row times of every table are non-decreasing from first row to last.
C1_TablesOrdered ==
    all_checked =>
        \A m \in DOMAIN hd5fp : \A g \in GroupSet :
            \A c \in DOMAIN hd5fp[m].grp[g].tbl : IsSorted(hd5fp[m].grp[g].tbl[c])

\* C2: an order-checked append repeated right away with the same data source
\* and type appends nothing: every table holds the rows it held after the
\* first call.
C2_SecondAppendAddsNothing ==
    [][(/\ IsAppend /\ ret.checkorder /\ ret.exc = ""
        /\ ncalls' = ncalls + 1
        /\ ret'.op = "append" /\ ret'.checkorder /\ ret'.exc = ""
        /\ ret'.data_type = ret.data_type
        /\ ret'.data_source = ret.data_source)
       => AllTables(hd5fp') = AllTables(hd5fp)]_vars

\* C3: with checkorder=True the rows written for a code are exactly the
\* input rows whose time is >= the group's cutoff (0 when blank), in input
\* order, after the rows the table already held.
C3_WritesRowsFromCutoff ==
    (IsAppend /\ ret.checkorder) =>
        \A i \in 1..Len(ret.trace) :
            StepOpen(i) =>
                LET before == StepBefore(i)[StepMarket(i)]
                    after == StepAfter(i)[StepMarket(i)]
                    kept == StepKept(i)
                IN  /\ TableOr(after, StepGroup, StepCode(i))
                         = TableOr(before, StepGroup, StepCode(i)) \o kept
                    /\ kept # <<>> => HasTable(after, StepGroup, StepCode(i))

\* C3 witness: a pair with a row below the cutoff and a row at the cutoff was
\* appended to a table that already held rows.
C3_Witness ==
    /\ IsAppend /\ ret.checkorder
    /\ \E i \in 1..Len(ret.trace) :
          /\ StepOpen(i)
          /\ StepCutoff(i) > 0
          /\ \E k \in 1..Len(StepData(i)) : StepData(i)[k].time < StepCutoff(i)
          /\ \E k \in 1..Len(StepData(i)) : StepData(i)[k].time = StepCutoff(i)
          /\ TableOr(StepBefore(i)[StepMarket(i)], StepGroup, StepCode(i)) # <<>>
          /\ Len(TableOr(StepAfter(i)[StepMarket(i)], StepGroup, StepCode(i)))
                > Len(TableOr(StepBefore(i)[StepMarket(i)], StepGroup, StepCode(i)))

\* C4: when rows are written for a market's index code, right after that
\* code the LAST_UPDATE of the group and of the market's root are the date of
\* the last written row, and no other market's LAST_UPDATE has changed.
C4_IndexCodeStamps ==
    IsAppend =>
        \A i \in 1..Len(ret.trace) :
            (StepOpen(i) /\ StepCode(i) \in IndexCodes /\ StepRows(i) # <<>>) =>
                LET after == StepAfter(i)
                    rows == StepRows(i)
                    stamp == dtnum2str(rows[Len(rows)].time)
                IN  /\ after[StepMarket(i)].grp[StepGroup].LAST_UPDATE = stamp
                    /\ after[StepMarket(i)].LAST_UPDATE = stamp
                    /\ \A m \in DOMAIN after \ {StepMarket(i)} :
                          Metas(after[m]) = Metas(StepBefore(i)[m])

\* C4 witness: an index code whose last input row was filtered out while an
\* earlier one was written, the other market being open with a stamp.
C4_Witness ==
    /\ IsAppend /\ ret.checkorder
    /\ \E i \in 1..Len(ret.trace) :
          /\ StepOpen(i) /\ StepCode(i) \in IndexCodes
          /\ StepKept(i) # <<>>
          /\ StepKept(i)[Len(StepKept(i))] # StepData(i)[Len(StepData(i))]
          /\ StepAfter(i)[StepMarket(i)].LAST_UPDATE
                # dtnum2str(StepData(i)[Len(StepData(i))].time)
          /\ \E m \in DOMAIN StepAfter(i) \ {StepMarket(i)} :
                StepAfter(i)[m].LAST_UPDATE # EmptyStr

\* C5: under checkorder=True a code whose rows are all below the cutoff is
\* skipped: no table is made, no table and no LAST_UPDATE changes, and the
\* code counts as seen, not as appended.
C5_EmptyFilterSkips ==
    (IsAppend /\ ret.checkorder) =>
        \A i \in 1..Len(ret.trace) :
            (StepOpen(i) /\ StepKept(i) = <<>>) =>
                /\ StepAfter(i) = StepBefore(i)
                /\ ret.trace[i].count[1] = CountBefore(i)[1] + 1
                /\ ret.trace[i].count[2] = CountBefore(i)[2]
                /\ ret.trace[i].exc = ""

\* C5 witness: a code with input rows was skipped at a stamped group, its
\* table absent before and after while another table holds rows.
C5_Witness ==
    /\ IsAppend /\ ret.checkorder
    /\ \E i \in 1..Len(ret.trace) :
          /\ StepOpen(i)
          /\ StepData(i) # <<>>
          /\ StepKept(i) = <<>>
          /\ ~HasTable(StepAfter(i)[StepMarket(i)], StepGroup, StepCode(i))
          /\ \E c \in DOMAIN StepAfter(i)[StepMarket(i)].grp[StepGroup].tbl :
                StepAfter(i)[StepMarket(i)].grp[StepGroup].tbl[c] # <<>>

\* C6: a DAILY or MIN5 append whose data source holds only non-index codes
\* leaves every LAST_UPDATE of every market as it was.
C6_NonIndexKeepsStamps ==
    (/\ IsAppend
     /\ ret.data_type \in {TYPE_DAILY, TYPE_MIN5}
     /\ \A i \in 1..Len(ret.data_source) : StepCode(i) \notin IndexCodes)
    => /\ DOMAIN hd5fp = DOMAIN ret.pre
       /\ \A m \in DOMAIN hd5fp : Metas(hd5fp[m]) = Metas(ret.pre[m])

\* C6 witness: two non-index codes were appended, rows were written, and a
\* market had a stamp to keep.
C6_Witness ==
    /\ IsAppend
    /\ ret.data_type \in {TYPE_DAILY, TYPE_MIN5}
    /\ Len(ret.data_source) = 2
    /\ \A i \in 1..Len(ret.data_source) : StepCode(i) \notin IndexCodes
    /\ ret.count[2] > 0
    /\ AllTables(hd5fp) # AllTables(ret.pre)
    /\ \E m \in DOMAIN hd5fp : hd5fp[m].grp[StepGroup].LAST_UPDATE # EmptyStr

\* C7: a SPLITS append that returns leaves the SPLITS LAST_UPDATE of every
\* market at the current date, whatever the data source held; a second
\* such call on the same day therefore leaves the value of the first.
IsSplitsReturn == IsAppend /\ ret.data_type = TYPE_SPLITS /\ ret.exc = ""
C7_SplitsStampIsToday ==
    IsSplitsReturn =>
        \A m \in MarketSet :
            /\ m \in DOMAIN hd5fp
            /\ hd5fp[m].grp[GRP_SPLITS].LAST_UPDATE = strftime(today)

\* C7 witness: the second of two SPLITS calls of one day, with an empty data
\* source, after a day on which the stamp was another.
C7_Witness ==
    /\ IsSplitsReturn
    /\ ret.data_source = <<>>
    /\ ncalls = 2
    /\ today > FirstDay
    /\ \A m \in MarketSet :
          /\ ret.pre[m].grp[GRP_SPLITS].LAST_UPDATE = strftime(today)
          /\ hd5fp[m].grp[GRP_SPLITS].LAST_UPDATE = strftime(today)

\* C7 witness: a SPLITS call in which every code was skipped refreshed a
\* stamp of an earlier day.
C7_WitnessSkipped ==
    /\ IsSplitsReturn
    /\ ret.data_source # <<>>
    /\ ret.count[2] = 0
    /\ \E m \in MarketSet : ret.pre[m].grp[GRP_SPLITS].LAST_UPDATE \notin
                               {EmptyStr, strftime(today)}

\* C8: with exactly one market's file missing, every call that names only
\* codes of the open market (an append of any type, extract, sort, the
\* last-update report) completes without an exception.
CodeOfOpenMarket(code) == Prefix2(upper(code)) \in DOMAIN hd5fp
C8_OpenMarketUsable ==
    (/\ Cardinality(DOMAIN hd5fp) = 1
     /\ ret.op # "none"
     /\ IsAppend =>
           \A i \in 1..Len(ret.data_source) : CodeOfOpenMarket(ret.data_source[i].code)
     /\ ret.op = "extract" =>
           \A i \in 1..Len(ret.code_lst) : CodeOfOpenMarket(ret.code_lst[i]))
    => ret.exc = ""

\* C9: in an append on the open markets, a code whose market tag is not one of MARKETS or whose
\* width is not 8 is skipped without an exception, counted as seen only, and
\* the codes after it are processed; so every table of every file, the
\* extracted one included, is named by a code of width 8 with a known tag.
TableNames(file) == UNION {DOMAIN file.grp[g].tbl : g \in GroupSet}
WellFormedCode(c) == Len(c) = CodeWidth /\ Prefix2(c) \in MarketSet
C9_TablesNamedByValidCodes ==
    /\ (IsAppend /\ DOMAIN ret.pre = MarketSet) =>
          \A i \in 1..Len(ret.data_source) :
              (i = 1 \/ i - 1 \in 1..Len(ret.trace)) /\ ~WellFormedCode(StepCode(i)) =>
                  /\ i \in 1..Len(ret.trace)
                  /\ StepAfter(i) = StepBefore(i)
                  /\ ret.trace[i].count[1] = CountBefore(i)[1] + 1
                  /\ ret.trace[i].count[2] = CountBefore(i)[2]
                  /\ ret.trace[i].exc = ""
    /\ \A file \in {hd5fp[m] : m \in DOMAIN hd5fp} \cup {dst.file} :
          \A c \in TableNames(file) : WellFormedCode(c)

\* C10: after extract has returned, reading from the destination a valid
\* requested code in a group where the source holds its table gives the rows
\* of the source table, in the same order.
DstStore == [m \in MarketSet |-> dst.file]
IsExtractReturn == ret.op = "extract" /\ ret.made /\ ret.exc = ""
C10_ExtractRoundTrip ==
    IsExtractReturn =>
        \A i \in 1..Len(ret.code_lst) : \A t \in TypeSet :
            LET code == upper(ret.code_lst[i])
                mk == Prefix2(code)
            IN  (/\ mk \in DOMAIN ret.pre
                 /\ Len(code) = CodeWidth
                 /\ HasTable(ret.pre[mk], TYPE2GRP[t], code))
                => read(DstStore, ret.code_lst[i], t)
                      = [exc |-> "", rows |-> ret.pre[mk].grp[TYPE2GRP[t]].tbl[code]]

\* C10 witness: a code listed twice whose source table of two rows or more
\* was read back from the destination.
C10_Witness ==
    /\ IsExtractReturn
    /\ Len(ret.code_lst) = 2
    /\ ret.code_lst[1] = ret.code_lst[2]
    /\ \E t \in TypeSet :
          LET r == read(DstStore, ret.code_lst[1], t)
          IN  /\ r.rows # None
              /\ Len(r.rows) >= 2
              /\ r.rows = read(ret.pre, ret.code_lst[1], t).rows

\* the valid codes of the request, by position
Attempted == {i \in 1..Len(ret.code_lst) : ~InvalidCode(upper(ret.code_lst[i]))}
\* the groups into which the code at position i was copied
CopiedGroups(i) ==
    LET code == upper(ret.code_lst[i])
    IN  {g \in GroupSet :
            /\ HasTable(ret.pre[Prefix2(code)], g, code)
            /\ ~(ret.fault.i = i /\ ret.fault.g = g)}

\* C11: the tally of an extract that returns is the number of requested codes
\* of which at least one group was copied, out of the number of valid codes
\* attempted; a code found in several groups counts once, so the first number
\* never exceeds the second.
C11_TallyCountsCodes ==
    IsExtractReturn =>
        /\ ret.count[1] = Cardinality(Attempted)
        /\ ret.count[2] = Cardinality({i \in Attempted : CopiedGroups(i) # {}})
        /\ ret.count[2] <= ret.count[1]

\* the names of the tables of group g over all the files of fp
NamesIn(fp, g) == UNION {DOMAIN fp[m].grp[g].tbl : m \in DOMAIN fp}

\* C12: after an extract that returns, the destination holds a table for
\* (kind, code) exactly when code, in upper case, is a requested code with a
\* known market tag and the full width of which the source has a table of that
\* kind; no table of a code that was not requested; and the source files are
\* what they were before the call.
C12_DestinationHoldsRequested ==
    IsExtractReturn =>
        /\ \A g \in GroupSet :
              DOMAIN dst.file.grp[g].tbl =
                  {c \in NamesIn(ret.pre, g) :
                      /\ Prefix2(c) \in MarketSet
                      /\ Len(c) = CodeWidth
                      /\ HasTable(ret.pre[Prefix2(c)], g, c)
                      /\ \E i \in 1..Len(ret.code_lst) : upper(ret.code_lst[i]) = c}
        /\ hd5fp = ret.pre

\* C12 witness: of two requested codes one was copied and the other, valid
\* too, has no table in the source, whose other table, not requested, is not
\* in the destination.
C12_Witness ==
    /\ IsExtractReturn
    /\ Len(ret.code_lst) = 2
    /\ \E g \in GroupSet :
          /\ upper(ret.code_lst[1]) \in DOMAIN dst.file.grp[g].tbl
          /\ ~InvalidCode(upper(ret.code_lst[2]))
          /\ \A h \in GroupSet : upper(ret.code_lst[2]) \notin NamesIn(ret.pre, h)
          /\ NamesIn(ret.pre, g) \ DOMAIN dst.file.grp[g].tbl # {}

\* C13: in an extract that made its destination, a failure on one code or on
\* one (code, group) pair, other than a missing source table, is recovered in
\* place: the call raises nothing, every code of the request is gone through,
\* every group in which the source has a table of a valid code was tried
\* (copied, or its exception caught), and the destination is closed at the end.
C13_ExtractRecovers ==
    (ret.op = "extract" /\ ret.made) =>
        /\ ret.exc = ""
        /\ ret.done = 1..Len(ret.code_lst)
        /\ dst.closed
        /\ ret.count[2] + ret.caught =
              Cardinality({p \in Attempted \X GroupSet :
                  HasTable(ret.pre[Prefix2(upper(ret.code_lst[p[1]]))], p[2],
                           upper(ret.code_lst[p[1]]))})

\* the rows of the given time, in their order
RowsAt(rows, t) == SelectSeq(rows, LAMBDA r : r.time = t)
\* how many times r stands in rows
Occurs(rows, r) == Cardinality({i \in 1..Len(rows) : rows[i] = r})
TimesOf(rows) == {rows[i].time : i \in 1..Len(rows)}

\* C14: after sort_hd5 every table holds the rows it held before, none lost
\* and none twice, in non-decreasing order of time, the rows of one time in
\* the order they had.
C14_SortPermutesInOrder ==
    ret.op = "sort" =>
        \A m \in DOMAIN hd5fp : \A g \in GroupSet :
            \A c \in DOMAIN ret.pre[m].grp[g].tbl :
                LET old == ret.pre[m].grp[g].tbl[c]
                    new == hd5fp[m].grp[g].tbl[c]
                IN  /\ Len(new) = Len(old)
                    /\ \A i \in 1..Len(old) : Occurs(new, old[i]) = Occurs(old, old[i])
                    /\ IsSorted(new)
                    /\ \A t \in TimesOf(old) : RowsAt(new, t) = RowsAt(old, t)

\* C15: sort_hd5 leaves a table whose rows are in non-decreasing order of
\* time as it is, and so sorting the sorted files once more changes nothing.
C15_SortTwiceAsOnce ==
    ret.op = "sort" =>
        /\ \A m \in DOMAIN hd5fp : \A g \in GroupSet :
              \A c \in DOMAIN ret.pre[m].grp[g].tbl :
                  IsSorted(ret.pre[m].grp[g].tbl[c])
                      => hd5fp[m].grp[g].tbl[c] = ret.pre[m].grp[g].tbl[c]
        /\ sort_hd5(hd5fp) = hd5fp

IsUpdateReturn == ret.op = "dad2hd5" /\ ret.exc = ""
\* the trading days after the SH file's LAST_UPDATE up to today
DaysAfterUpdate == {d \in (ret.lupdate[MK_SH][1] + 1)..today : IsWorkday(d)}
DayKinds == {TYPE_DAILY, TYPE_MIN5}
\* the places in ret.calls of the appends of the daily and 5-minute types
DayCalls == {i \in 1..Len(ret.calls) : ret.calls[i].data_type \in DayKinds}
SplitsCalls == {i \in 1..Len(ret.calls) : ret.calls[i].data_type = TYPE_SPLITS}
\* Every (day, type) whose file can be read was appended once with
\* checkorder=True, the others were not, in ascending order of the days and
\* the daily file of a day before its 5-minute file.
DayCallsInOrder ==
    /\ \A i \in 1..Len(ret.calls) : ret.calls[i].checkorder
    /\ {<<ret.calls[i].day, ret.calls[i].data_type>> : i \in DayCalls}
          = {u \in DaysAfterUpdate \X DayKinds : Unit(u[1], u[2]) \in ret.avail}
    /\ Cardinality(DayCalls)
          = Cardinality({u \in DaysAfterUpdate \X DayKinds : Unit(u[1], u[2]) \in ret.avail})
    /\ \A i \in DayCalls :
          ret.calls[i].data_source = FeedSource(ret.calls[i].day, ret.calls[i].data_type)
    /\ \A i, j \in DayCalls :
          i < j => \/ ret.calls[i].day < ret.calls[j].day
                   \/ /\ ret.calls[i].day = ret.calls[j].day
                      /\ ret.calls[i].data_type = TYPE_DAILY
                      /\ ret.calls[j].data_type = TYPE_MIN5

IsLostDateCall == ret.op = "get_lostdate"
\* the code get_lostdate looks up and whether its 5-minute table is there
LostCode == IF ret.arg = NoArg THEN MK_INDEX[MK_SH] ELSE ret.arg
LostTableThere ==
    /\ Prefix2(LostCode) \in DOMAIN ret.pre
    /\ HasTable(ret.pre[Prefix2(LostCode)], GRP_MIN5, LostCode)
LostTable == ret.pre[Prefix2(LostCode)].grp[GRP_MIN5].tbl[LostCode]
\* the days of which the table has a row
RecordedDays == {LostTable[i].time \div DayLen : i \in 1..Len(LostTable)}
\* the trading days from the day of the first row to the day of the last row
\* of which the table has no row
MissingDays ==
    {d \in (LostTable[1].time \div DayLen)..(LostTable[Len(LostTable)].time \div DayLen) :
        IsWorkday(d) /\ d \notin RecordedDays}

IsUnchecked == IsAppend /\ ~ret.checkorder
\* the i-th pair wrote all its input rows after the rows its table held
StepWroteAll(i) ==
    TableOr(StepAfter(i)[StepMarket(i)], StepGroup, StepCode(i))
        = TableOr(StepBefore(i)[StepMarket(i)], StepGroup, StepCode(i)) \o StepData(i)

\* C18 as stated, for the DAILY and MIN5 types and a call that raises
\* nothing: an append with checkorder=False writes all input rows of every
\* code unfiltered and leaves the LAST_UPDATE of every group and of the root
\* of every market as it was before the call, index codes included.
C18_UncheckedKeepsStamps ==
    (IsUnchecked /\ ret.data_type \in DayKinds /\ ret.exc = "") =>
        /\ \A i \in 1..Len(ret.trace) : StepOpen(i) => StepWroteAll(i)
        /\ \A m \in DOMAIN ret.pre : Metas(hd5fp[m]) = Metas(ret.pre[m])

\* C18 amended: an append with checkorder=False writes all input rows of
\* every code unfiltered; a code that is no index code changes no
\* LAST_UPDATE; an index code with rows sets the LAST_UPDATE of the group of
\* the call's type and of the root of its market to the date of its last
\* input row, later or earlier than before, and changes no other.
C18_UncheckedStampsIndexOnly ==
    IsUnchecked =>
        \A i \in 1..Len(ret.trace) :
            (StepOpen(i) /\ StepData(i) # <<>>) =>
                LET before == StepBefore(i)
                    after == StepAfter(i)
                    mk == StepMarket(i)
                    stamp == dtnum2str(StepData(i)[Len(StepData(i))].time)
                IN  /\ StepWroteAll(i)
                    /\ \A m \in DOMAIN before \ {mk} : Metas(after[m]) = Metas(before[m])
                    /\ \A g \in GroupSet \ {StepGroup} :
                          after[mk].grp[g].LAST_UPDATE = before[mk].grp[g].LAST_UPDATE
                    /\ IF StepCode(i) \in IndexCodes
                       THEN /\ after[mk].grp[StepGroup].LAST_UPDATE = stamp
                            /\ after[mk].LAST_UPDATE = stamp
                       ELSE Metas(after[mk]) = Metas(before[mk])

\* C18 witness: an index code appended with checkorder=False whose last input
\* row is of a day before the group's LAST_UPDATE, which went back to it.
C18_Witness ==
    /\ IsUnchecked
    /\ \E i \in 1..Len(ret.trace) :
          /\ StepOpen(i) /\ StepCode(i) \in IndexCodes
          /\ StepBefore(i)[StepMarket(i)].grp[StepGroup].LAST_UPDATE # EmptyStr
          /\ StepData(i)[Len(StepData(i))].time < StepCutoff(i)
          /\ StepAfter(i)[StepMarket(i)].grp[StepGroup].LAST_UPDATE
                # StepBefore(i)[StepMarket(i)].grp[StepGroup].LAST_UPDATE

\* a LAST_UPDATE as a number: the blank one is before every date
StampNum(s) == IF s = EmptyStr THEN -1 ELSE s[1]
IsCheckedDayAppend == IsAppend /\ ret.checkorder /\ ret.data_type \in DayKinds
GroupStamp(fp, m, g) == StampNum(fp[m].grp[g].LAST_UPDATE)

\* C19: in an append of the DAILY or MIN5 type with checkorder=True the
\* LAST_UPDATE of the DAILY and of the MIN5 group of every market is, after
\* each code of the data source and at the end of the call, the date it was
\* or a later one, whatever the order of the rows of the batches.
C19_WatermarkAdvances ==
    IsCheckedDayAppend =>
        /\ \A i \in 1..Len(ret.trace) : \A m \in DOMAIN ret.pre :
              \A g \in {GRP_DAILY, GRP_MIN5} :
                  GroupStamp(StepAfter(i), m, g) >= GroupStamp(StepBefore(i), m, g)
        /\ \A m \in DOMAIN ret.pre : \A g \in {GRP_DAILY, GRP_MIN5} :
              GroupStamp(hd5fp, m, g) >= GroupStamp(ret.pre, m, g)

\* C19 witness: in one call a group's date went from one day to a later day,
\* and a batch out of time order whose last row is of a day before the
\* group's date had rows written.
C19_Witness ==
    /\ IsCheckedDayAppend
    /\ \E i \in 1..Len(ret.trace) :
          /\ StepOpen(i)
          /\ GroupStamp(StepBefore(i), StepMarket(i), StepGroup) >= 0
          /\ GroupStamp(StepAfter(i), StepMarket(i), StepGroup)
                > GroupStamp(StepBefore(i), StepMarket(i), StepGroup)
    /\ \E j \in 1..Len(ret.trace) :
          /\ StepOpen(j) /\ StepCode(j) \in IndexCodes
          /\ ~IsSorted(StepData(j))
          /\ StepData(j)[Len(StepData(j))].time < StepCutoff(j)
          /\ StepKept(j) # <<>>

IsPrefix(s, t) == Len(s) <= Len(t) /\ SubSeq(t, 1, Len(s)) = s
\* the (market, group, code) of every table of fp
TableKeys(fp) ==
    UNION {{<<m, g, c>> : c \in DOMAIN fp[m].grp[g].tbl} : <<m, g>> \in (DOMAIN fp) \X GroupSet}

\* C20: in every append, with checkorder True or False, after each code of
\* the data source the rows the code's own table held before are a prefix of
\* the rows it holds, and every other table, of another code, another group
\* or another market, holds the rows it held; no table is gone.
C20_AppendOnlyAndLocal ==
    IsAppend =>
        \A i \in 1..Len(ret.trace) :
            LET before == StepBefore(i)
                after == StepAfter(i)
                own == <<StepMarket(i), StepGroup, StepCode(i)>>
            IN  /\ DOMAIN after = DOMAIN before
                /\ TableKeys(before) \subseteq TableKeys(after)
                /\ TableKeys(after) \subseteq TableKeys(before) \cup {own}
                /\ \A k \in TableKeys(after) :
                      IF k = own
                      THEN IsPrefix(TableOr(before[k[1]], k[2], k[3]),
                                    after[k[1]].grp[k[2]].tbl[k[3]])
                      ELSE after[k[1]].grp[k[2]].tbl[k[3]]
                              = before[k[1]].grp[k[2]].tbl[k[3]]

\* C20 witness: rows were added to a table that held rows, while a table of
\* the other market and a table of another code of the same group held rows.
C20_Witness ==
    /\ IsAppend
    /\ \E i \in 1..Len(ret.trace) :
          /\ StepOpen(i)
          /\ TableOr(StepBefore(i)[StepMarket(i)], StepGroup, StepCode(i)) # <<>>
          /\ Len(TableOr(StepAfter(i)[StepMarket(i)], StepGroup, StepCode(i)))
                > Len(TableOr(StepBefore(i)[StepMarket(i)], StepGroup, StepCode(i)))
          /\ \E k \in TableKeys(StepBefore(i)) :
                k[1] # StepMarket(i) /\ StepBefore(i)[k[1]].grp[k[2]].tbl[k[3]] # <<>>
          /\ \E k \in TableKeys(StepBefore(i)) :
                /\ k[1] = StepMarket(i) /\ k[2] = StepGroup /\ k[3] # StepCode(i)
                /\ StepBefore(i)[k[1]].grp[k[2]].tbl[k[3]] # <<>>

====
